---- MODULE Spec2Model ----
(***************************************************************************)
(* Model of scripts/process_data.py: the scan of a directory of signature  *)
(* files (collect_signatures), the identity heuristics applied to each     *)
(* file name, the best_signature table, and the driver (main) that runs    *)
(* t-SNE on the retained records and writes the database.                  *)
(*                                                                         *)
(* A Python str is modelled as a sequence of one-character strings, so     *)
(* that replace, split, join, title, lower and `in` are computed as Python *)
(* computes them.                                                          *)
(***************************************************************************)
EXTENDS Integers, Sequences, FiniteSets, TLC

VARIABLES
    pc,              \* position of main(): start, scan, collected, ..., exited
    scanned,         \* paths rglob has yielded so far, in order
    best_signature,  \* collect_signatures: model_id -> [score, record, src]
    order,           \* insertion order of best_signature's keys (dict order)
    seen,            \* history: every candidate that reached the dedup test
    records,         \* main: the list collect_signatures returned
    vectors,         \* main: np.array of the signatures
    tsneCalls,       \* the row counts tsne.fit_transform was called with
    embeddings,      \* main: what fit_transform returned
    models_out,      \* main: the records with their coordinates
    output,          \* <<the document json.dump wrote>>, or <<>>
    exitCode,        \* exit status of the run once it has ended
    message,         \* the last line main printed before exiting
    stem,            \* resolver harness: the file stem being resolved
    resolved,        \* resolver harness: the record built for it
    asmRecords,      \* assembly harness: records
    asmEmbeddings,   \* assembly harness: coordinate rows
    asmResult        \* assembly harness: outcome of the loop

vars == <<pc, scanned, best_signature, order, seen, records, vectors, tsneCalls,
          embeddings, models_out, output, exitCode, message, stem, resolved,
          asmRecords, asmEmbeddings, asmResult>>

pipelineVars == <<pc, scanned, best_signature, order, seen, records, vectors,
                  tsneCalls, embeddings, models_out, output, exitCode,
                  message>>
resolveVars == <<stem, resolved>>
asmVars == <<asmRecords, asmEmbeddings, asmResult>>

-----------------------------------------------------------------------------
(* Bounds *)

\* files in the scanned tree
MaxFiles == 3
\* tokens in a raw name given to the identity heuristics on their own
MaxTokens == 3
\* records given to the assembly loop on its own
MaxRows == 2

-----------------------------------------------------------------------------
(* Python str operations on sequences of characters *)

LowerLetters == <<"a","b","c","d","e","f","g","h","i","j","k","l","m",
                  "n","o","p","q","r","s","t","u","v","w","x","y","z">>
UpperLetters == <<"A","B","C","D","E","F","G","H","I","J","K","L","M",
                  "N","O","P","Q","R","S","T","U","V","W","X","Y","Z">>
Digits == {"0","1","2","3","4","5","6","7","8","9"}

IsLower(c) == \E i \in DOMAIN LowerLetters : LowerLetters[i] = c
IsUpper(c) == \E i \in DOMAIN UpperLetters : UpperLetters[i] = c
IsDigit(c) == c \in Digits

\* the characters of the names and paths of the model
Chars ==
    {LowerLetters[i] : i \in DOMAIN LowerLetters}
        \cup {UpperLetters[i] : i \in DOMAIN UpperLetters}
        \cup Digits \cup {"-", "_", ".", "/", " "}

LowerOf ==
    [c \in Chars |->
        IF IsUpper(c)
        THEN LowerLetters[CHOOSE i \in DOMAIN UpperLetters : UpperLetters[i] = c]
        ELSE c]
UpperOf ==
    [c \in Chars |->
        IF IsLower(c)
        THEN UpperLetters[CHOOSE i \in DOMAIN LowerLetters : LowerLetters[i] = c]
        ELSE c]
CasedChars == {c \in Chars : IsLower(c) \/ IsUpper(c)}

ToLower(c) == LowerOf[c]
ToUpper(c) == UpperOf[c]

\* str.lower()
Lower(s) == [i \in 1..Len(s) |-> ToLower(s[i])]

\* str.title(): a cased character is upper-cased when the character before it
\* is not cased, and lower-cased otherwise; uncased characters are kept
title(s) ==
    [i \in 1..Len(s) |->
        IF s[i] \in CasedChars
        THEN IF i > 1 /\ s[i-1] \in CasedChars THEN ToLower(s[i]) ELSE ToUpper(s[i])
        ELSE s[i]]

\* sub in s
Contains(s, sub) ==
    \E i \in 0..(Len(s) - Len(sub)) : SubSeq(s, i + 1, i + Len(sub)) = sub

StartsWith(s, p) == Len(p) <= Len(s) /\ SubSeq(s, 1, Len(p)) = p
EndsWith(s, p) ==
    Len(p) <= Len(s) /\ SubSeq(s, Len(s) - Len(p) + 1, Len(s)) = p

\* s.replace(old, new), old non-empty: leftmost, non-overlapping, one pass
RECURSIVE Replace(_, _, _)
Replace(s, old, new) ==
    IF Len(s) < Len(old) THEN s
    ELSE IF StartsWith(s, old)
         THEN new \o Replace(SubSeq(s, Len(old) + 1, Len(s)), old, new)
         ELSE <<s[1]>> \o Replace(Tail(s), old, new)

\* s.split(sep), sep one character: the list of the pieces between separators
RECURSIVE Split(_, _)
Split(s, sep) ==
    IF \A i \in 1..Len(s) : s[i] # sep THEN <<s>>
    ELSE LET k == CHOOSE i \in 1..Len(s) :
                      s[i] = sep /\ \A j \in 1..(i - 1) : s[j] # sep
         IN  <<SubSeq(s, 1, k - 1)>> \o Split(SubSeq(s, k + 1, Len(s)), sep)

\* sep.join(parts)
RECURSIVE Join(_, _)
Join(parts, sep) ==
    IF Len(parts) = 0 THEN <<>>
    ELSE IF Len(parts) = 1 THEN parts[1]
         ELSE parts[1] \o <<sep>> \o Join(Tail(parts), sep)

-----------------------------------------------------------------------------
(* String literals of the source *)

S_embed == <<"e","m","b","e","d">>
S_dna == <<"_","d","n","a">>
S_json == <<".","j","s","o","n">>
S_DRYRUN == <<"_","D","R","Y","R","U","N",".","j","s","o","n">>
S_Unknown == <<"U","n","k","n","o","w","n">>
S_Others == <<"O","t","h","e","r","s">>
S_meta_llama == <<"m","e","t","a","-","l","l","a","m","a">>
S_meta_llama_ == <<"m","e","t","a","-","l","l","a","m","a","-">>
S_fine_tuned_ == <<"f","i","n","e","-","t","u","n","e","d","-">>
S_qwen == <<"q","w","e","n">>
S_mistral == <<"m","i","s","t","r","a","l">>
S_01_ai == <<"0","1","-","a","i">>
S_google == <<"g","o","o","g","l","e">>
S_microsoft == <<"m","i","c","r","o","s","o","f","t">>
S_Meta_Llama == <<"M","e","t","a"," ","L","l","a","m","a">>
S_Llama == <<"L","l","a","m","a">>
S_01_Ai == <<"0","1"," ","A","i">>
S_Qwen == <<"Q","w","e","n">>
S_Mistral == <<"M","i","s","t","r","a","l">>
S_Google == <<"G","o","o","g","l","e">>
S_Microsoft == <<"M","i","c","r","o","s","o","f","t">>
S_llama == <<"l","l","a","m","a">>
S_gemma == <<"g","e","m","m","a">>
S_phi == <<"p","h","i">>
S_yi == <<"y","i">>
S_falcon == <<"f","a","l","c","o","n">>
S_deepseek == <<"d","e","e","p","s","e","e","k">>
S_Gemma == <<"G","e","m","m","a">>
S_Phi == <<"P","h","i">>
S_Yi == <<"Y","i">>
S_Falcon == <<"F","a","l","c","o","n">>
S_DeepSeek == <<"D","e","e","p","S","e","e","k">>
S_instruct == <<"i","n","s","t","r","u","c","t">>
S_chat == <<"c","h","a","t">>

-----------------------------------------------------------------------------
(* extract_params *)

\* the end of the run of digits that starts at s[i]
RECURSIVE DigitRunEnd(_, _)
DigitRunEnd(s, i) ==
    IF i < Len(s) /\ IsDigit(s[i + 1]) THEN DigitRunEnd(s, i + 1) ELSE i

IsB(s, i) == i <= Len(s) /\ s[i] \in {"B", "b"}

\* re.match of (\d+(\.\d+)?)B at position i: the end of group 1, or 0
ParamsMatchAt(s, i) ==
    IF ~IsDigit(s[i]) THEN 0
    ELSE LET j == DigitRunEnd(s, i)
             frac == j + 2 <= Len(s) /\ s[j + 1] = "." /\ IsDigit(s[j + 2])
             k == IF frac THEN DigitRunEnd(s, j + 2) ELSE 0
         IN  IF frac /\ IsB(s, k + 1) THEN k
             ELSE IF IsB(s, j + 1) THEN j
             ELSE 0

extract_params(name) ==
    IF \E i \in 1..Len(name) : ParamsMatchAt(name, i) > 0
    THEN LET i == CHOOSE a \in 1..Len(name) :
                      /\ ParamsMatchAt(name, a) > 0
                      /\ \A b \in 1..(a - 1) : ParamsMatchAt(name, b) = 0
         IN  SubSeq(name, i, ParamsMatchAt(name, i)) \o <<"B">>
    ELSE S_Unknown

-----------------------------------------------------------------------------
(* Identity heuristics of collect_signatures *)

\* model_id = dna_path.stem.replace('_dna', '')
model_id_of(fileStem) == Replace(fileStem, S_dna, <<>>)

\* lines 73-75 splitting at the last underscore, the other heuristics dropped
SplitOrgNameLast(model_id) ==
    IF Contains(model_id, <<"_">>)
    THEN LET parts == Split(model_id, "_")
         IN  [org |-> Join(SubSeq(parts, 1, Len(parts) - 1), "_"),
              name |-> parts[Len(parts)]]
    ELSE [org |-> S_Others, name |-> model_id]

\* lines 68-96: organization and display name before the placeholder fallback
SplitOrgName(model_id) ==
    LET clean_id == Lower(model_id) IN
    IF Contains(model_id, <<"_">>)
    THEN LET parts == Split(model_id, "_")
         IN  [org |-> parts[1], name |-> Join(Tail(parts), "_")]
    ELSE IF Contains(clean_id, S_meta_llama)
         THEN [org |-> S_Meta_Llama,
               name |-> Replace(Replace(model_id, S_fine_tuned_, <<>>),
                                S_meta_llama_, <<>>)]
    ELSE IF Contains(clean_id, S_qwen) THEN [org |-> S_Qwen, name |-> model_id]
    ELSE IF Contains(clean_id, S_mistral)
         THEN [org |-> S_Mistral, name |-> model_id]
    ELSE IF Contains(clean_id, S_01_ai) THEN [org |-> S_01_ai, name |-> model_id]
    ELSE IF Contains(clean_id, S_google)
         THEN [org |-> S_Google, name |-> model_id]
    ELSE IF Contains(clean_id, S_microsoft)
         THEN [org |-> S_Microsoft, name |-> model_id]
    ELSE [org |-> S_Others, name |-> model_id]

\* lines 98-101: a placeholder organization falls back to the first hyphen token
PlaceholderFallback(org, model_id) ==
    IF (org = S_Unknown \/ org = S_Others) /\ Contains(model_id, <<"-">>)
    THEN Split(model_id, "-")[1]
    ELSE org

\* line 104
CleanOrg(org) == title(Replace(org, <<"-">>, <<" ">>))

\* lines 107-109 with the tests of line 107 made on the lower-cased value
SpecialFixesAnyCase(org) ==
    LET o1 == IF Contains(Lower(org), S_llama) THEN S_Meta_Llama ELSE org
        o2 == IF Contains(o1, S_01_Ai) THEN S_01_ai ELSE o1
        o3 == IF Contains(o2, S_Qwen) THEN S_Qwen ELSE o2
    IN  o3

\* lines 107-109: three independent tests, each on the current value
SpecialFixes(org) ==
    LET o1 == IF Contains(org, S_Meta_Llama) \/ Contains(org, S_Llama)
              THEN S_Meta_Llama ELSE org
        o2 == IF Contains(o1, S_01_Ai) THEN S_01_ai ELSE o1
        o3 == IF Contains(o2, S_Qwen) THEN S_Qwen ELSE o2
    IN  o3

\* lines 114-123
Family(full_id_lower) ==
    IF Contains(full_id_lower, S_llama) THEN S_Llama
    ELSE IF Contains(full_id_lower, S_qwen) THEN S_Qwen
    ELSE IF Contains(full_id_lower, S_mistral) THEN S_Mistral
    ELSE IF Contains(full_id_lower, S_gemma) THEN S_Gemma
    ELSE IF Contains(full_id_lower, S_phi) THEN S_Phi
    ELSE IF Contains(full_id_lower, S_yi) THEN S_Yi
    ELSE IF Contains(full_id_lower, S_falcon) THEN S_Falcon
    ELSE IF Contains(full_id_lower, S_deepseek) THEN S_DeepSeek
    ELSE S_Unknown

\* lines 61-133: the record built for a file whose signature passed line 55
MakeRecord(model_id, sig) ==
    LET split == SplitOrgName(model_id)
        org == SpecialFixes(CleanOrg(PlaceholderFallback(split.org, model_id)))
        full_id == org \o <<"/">> \o split.name
        full_id_lower == Lower(full_id)
    IN  [id |-> full_id,
         name |-> model_id,
         organization |-> org,
         family |-> Family(full_id_lower),
         signature |-> sig,
         parameters |-> extract_params(model_id),
         isInstruct |-> Contains(full_id_lower, S_instruct)
                        \/ Contains(full_id_lower, S_chat)]

-----------------------------------------------------------------------------
(* The scanned tree *)

S_root == <<"d","n","a","-","o","u","t">>
D_run == <<"r","u","n">>
D_embed == <<"e","m","b","e","d">>
D_EMBED == <<"E","M","B","E","D">>
F_qwen_x == <<"q","w","e","n","_","x","_","d","n","a">>
F_Qwen_x == <<"Q","w","e","n","_","x","_","d","n","a">>
F_qwen_x_2 == <<"q","w","e","n","_","x","_","d","n","a","_","d","n","a">>

\* the files "*_dna.json" a tree may hold: three runs of the pipeline, each
\* with a file for qwen_x, one for Qwen_x and a second one for qwen_x
Dirs == {D_run, D_embed, D_EMBED}
Stems == {F_qwen_x, F_Qwen_x, F_qwen_x_2}
Paths == [dir : Dirs, stem : Stems]

\* what a file holds: unparsable text, a JSON array, or a JSON object whose
\* 'signature' is absent, a string, or a list
Contents ==
    {[json |-> "invalid", sigtype |-> "absent", sig |-> <<>>],
     [json |-> "array", sigtype |-> "absent", sig |-> <<>>],
     [json |-> "object", sigtype |-> "absent", sig |-> <<>>],
     [json |-> "object", sigtype |-> "string", sig |-> <<>>],
     [json |-> "object", sigtype |-> "list", sig |-> <<>>],
     [json |-> "object", sigtype |-> "list", sig |-> <<1>>],
     [json |-> "object", sigtype |-> "list", sig |-> <<1, 2>>]}

\* dna_path.name and str(dna_path)
PathName(p) == p.stem \o S_json
PathStr(p) == S_root \o <<"/">> \o p.dir \o <<"/">> \o PathName(p)

-----------------------------------------------------------------------------
(* collect_signatures *)

\* line 52: json.load raises on text that is not JSON
LoadRaises(c) == c.json = "invalid"
\* line 54: data.get raises AttributeError when the document is not an object
GetRaises(c) == c.json # "object"
\* line 55: `not sig`
Falsy(c) == c.sigtype = "absent" \/ (c.sigtype = "list" /\ Len(c.sig) = 0)
\* the test of line 55 without `not sig`
SkipsSignatureNotList(c) == c.sigtype # "list"

\* line 55: the file is skipped
SkipsSignature(c) == Falsy(c) \/ c.sigtype # "list"

\* the test of line 59 without .lower()
is_embed_CaseSensitive(p) == IF Contains(PathStr(p), S_embed) THEN 1 ELSE 0

\* line 59
is_embed(p) == IF Contains(Lower(PathStr(p)), S_embed) THEN 1 ELSE 0

\* the test of line 137 with >= for >
ReplacesOnTie(table, key, score) ==
    key \notin DOMAIN table \/ score >= table[key].score

\* line 137: the candidate takes the slot of its key
Replaces(table, key, score) ==
    key \notin DOMAIN table \/ score > table[key].score

\* lines 137-138
Admit(table, key, score, record, src) ==
    IF Replaces(table, key, score)
    THEN [k \in DOMAIN table \cup {key} |->
             IF k = key THEN [score |-> score, record |-> record, src |-> src]
             ELSE table[k]]
    ELSE table

\* the table indexed by the resolved id
TableKeyIsId(model_id, record) == record.id

\* lines 137-138: the table is indexed by model_id
TableKey(model_id, record) == model_id

\* a dict keeps its keys in the order of their first insertion
InsertKey(ord, table, key) ==
    IF key \in DOMAIN table THEN ord ELSE Append(ord, key)

\* one iteration of the loop of line 47, for the file at p holding c
ScanFile(p, c) ==
    /\ pc = "scan"
    /\ Len(scanned) < MaxFiles
    /\ \A i \in 1..Len(scanned) : scanned[i] # p
    /\ scanned' = Append(scanned, p)
    /\ IF \/ EndsWith(PathName(p), S_DRYRUN)
          \/ LoadRaises(c)
          \/ GetRaises(c)
          \/ SkipsSignature(c)
       THEN UNCHANGED <<best_signature, order, seen>>
       ELSE LET model_id == model_id_of(p.stem)
                score == is_embed(p)
                record == MakeRecord(model_id, c.sig)
                key == TableKey(model_id, record)
            IN  /\ best_signature' = Admit(best_signature, key, score, record, p)
                /\ order' = InsertKey(order, best_signature, key)
                /\ seen' = Append(seen, [key |-> key, score |-> score,
                                         record |-> record, src |-> p])
    /\ UNCHANGED <<pc, records, vectors, tsneCalls, embeddings, models_out,
                   output, exitCode, message>>
    /\ UNCHANGED <<resolveVars, asmVars>>

Scan == \E p \in Paths, c \in Contents : ScanFile(p, c)

\* line 145, once rglob is exhausted
Values(table, ord) == [i \in 1..Len(ord) |-> table[ord[i]].record]

EndScan ==
    /\ pc = "scan"
    /\ records' = Values(best_signature, order)
    /\ pc' = "collected"
    /\ UNCHANGED <<scanned, best_signature, order, seen, vectors, tsneCalls,
                   embeddings, models_out, output, exitCode, message>>
    /\ UNCHANGED <<resolveVars, asmVars>>

-----------------------------------------------------------------------------
(* main *)

\* line 178: the cap of the perplexity
PerplexityCap == 30

Min(a, b) == IF a <= b THEN a ELSE b

Uniform(rows) ==
    \A i, j \in 1..Len(rows) : Len(rows[i]) = Len(rows[j])

Signatures(recs) == [i \in 1..Len(recs) |-> recs[i].signature]

\* line 174: np.array of lists of one length is a matrix. Of lists of different
\* lengths it is, depending on the installed numpy, a ValueError (1.24 and
\* later) or a one-dimensional array of list objects (before 1.24)
NpArrayOutcomes(rows) ==
    IF Uniform(rows) THEN {"matrix"} ELSE {"ValueError", "objects"}

\* line 180: row i of the result is the point of row i of the input; its value
\* depends on the whole input
FitTransform(matrix) ==
    [i \in 1..Len(matrix) |-> <<<<"tsne", "x", i, matrix[i]>>,
                                <<"tsne", "y", i, matrix[i]>>>>]

\* lines 189-190
WithXY(record, row) ==
    [k \in DOMAIN record \cup {"x", "y"} |->
        IF k = "x" THEN row[1] ELSE IF k = "y" THEN row[2] ELSE record[k]]

\* lines 188-193: embeddings[i, 0] raises IndexError past the last row
AssembleLoop(recs, emb) ==
    IF Len(emb) < Len(recs)
    THEN [status |-> "IndexError", models |-> <<>>]
    ELSE [status |-> "ok",
          models |-> [i \in 1..Len(recs) |-> WithXY(recs[i], emb[i])]]

\* lines 198-205
Document(models) ==
    [metadata |-> [count |-> Len(models), generated |-> TRUE],
     models |-> models]

Exit(code, msg) ==
    /\ pc' = "exited"
    /\ exitCode' = code
    /\ message' = msg

\* the test of line 169 with 1 for 2
TooFewBelowOne(recs) == Len(recs) < 1

\* line 169
TooFew(recs) == Len(recs) < 2

\* lines 162-164
CheckDir ==
    /\ pc = "start"
    /\ \E exists \in BOOLEAN :
          IF exists
          THEN pc' = "scan" /\ UNCHANGED <<exitCode, message>>
          ELSE Exit(1, "Dataset directory not found")
    /\ UNCHANGED <<scanned, best_signature, order, seen, records, vectors,
                   tsneCalls, embeddings, models_out, output>>
    /\ UNCHANGED <<resolveVars, asmVars>>

\* lines 169-171
CheckCount ==
    /\ pc = "collected"
    /\ IF TooFew(records)
       THEN Exit(1, "Not enough models for t-SNE")
       ELSE pc' = "vectors" /\ UNCHANGED <<exitCode, message>>
    /\ UNCHANGED <<scanned, best_signature, order, seen, records, vectors,
                   tsneCalls, embeddings, models_out, output>>
    /\ UNCHANGED <<resolveVars, asmVars>>

\* line 174
BuildVectors ==
    /\ pc = "vectors"
    /\ \E outcome \in NpArrayOutcomes(Signatures(records)) :
          IF outcome = "ValueError"
          THEN Exit(1, "ValueError") /\ UNCHANGED vectors
          ELSE /\ vectors' = Signatures(records)
               /\ pc' = "tsne"
               /\ UNCHANGED <<exitCode, message>>
    /\ UNCHANGED <<scanned, best_signature, order, seen, records, tsneCalls,
                   embeddings, models_out, output>>
    /\ UNCHANGED <<resolveVars, asmVars>>

\* lines 178-180: fit_transform validates its input and raises ValueError on
\* an array of objects
RunTSNE ==
    /\ pc = "tsne"
    /\ tsneCalls' = Append(tsneCalls,
                           [n |-> Len(vectors),
                            perplexity |-> Min(PerplexityCap, Len(records) - 1)])
    /\ IF Uniform(vectors)
       THEN /\ embeddings' = FitTransform(vectors)
            /\ pc' = "assemble"
            /\ UNCHANGED <<exitCode, message>>
       ELSE Exit(1, "ValueError") /\ UNCHANGED embeddings
    /\ UNCHANGED <<scanned, best_signature, order, seen, records, vectors,
                   models_out, output>>
    /\ UNCHANGED <<resolveVars, asmVars>>

\* lines 183-193
Assemble ==
    /\ pc = "assemble"
    /\ LET r == AssembleLoop(records, embeddings)
       IN  IF r.status = "ok"
           THEN /\ models_out' = r.models
                /\ pc' = "write"
                /\ UNCHANGED <<exitCode, message>>
           ELSE Exit(1, "IndexError") /\ UNCHANGED models_out
    /\ UNCHANGED <<scanned, best_signature, order, seen, records, vectors,
                   tsneCalls, embeddings, output>>
    /\ UNCHANGED <<resolveVars, asmVars>>

\* lines 198-211
WriteDatabase ==
    /\ pc = "write"
    /\ output' = <<Document(models_out)>>
    /\ Exit(0, "Database written")
    /\ UNCHANGED <<scanned, best_signature, order, seen, records, vectors,
                   tsneCalls, embeddings, models_out>>
    /\ UNCHANGED <<resolveVars, asmVars>>

IdleResolve == stem = <<>> /\ resolved = <<>>
IdleAsm ==
    /\ asmRecords = <<>>
    /\ asmEmbeddings = <<>>
    /\ asmResult = [status |-> "idle", models |-> <<>>]
IdlePipeline ==
    /\ pc = "idle"
    /\ scanned = <<>>
    /\ best_signature = <<>>
    /\ order = <<>>
    /\ seen = <<>>
    /\ records = <<>>
    /\ vectors = <<>>
    /\ tsneCalls = <<>>
    /\ embeddings = <<>>
    /\ models_out = <<>>
    /\ output = <<>>
    /\ exitCode = -1
    /\ message = ""

Init ==
    /\ pc = "start"
    /\ scanned = <<>>
    /\ best_signature = <<>>
    /\ order = <<>>
    /\ seen = <<>>
    /\ records = <<>>
    /\ vectors = <<>>
    /\ tsneCalls = <<>>
    /\ embeddings = <<>>
    /\ models_out = <<>>
    /\ output = <<>>
    /\ exitCode = -1
    /\ message = ""
    /\ IdleResolve
    /\ IdleAsm

Next ==
    \/ CheckDir
    \/ Scan
    \/ EndScan
    \/ CheckCount
    \/ BuildVectors
    \/ RunTSNE
    \/ Assemble
    \/ WriteDatabase

Spec == Init /\ [][Next]_vars

-----------------------------------------------------------------------------
(* The identity heuristics on their own: one file name, resolved *)

S_codellama == <<"c","o","d","e","l","l","a","m","a">>
S_7b == <<"7","b">>

Tokens ==
    {S_meta_llama, S_llama, S_codellama, S_qwen, S_01_ai, S_Others,
     S_fine_tuned_, S_7b, <<"-">>, <<"_">>, <<"x">>}

RECURSIVE NamesUpTo(_)
NamesUpTo(n) ==
    IF n = 0 THEN {<<>>}
    ELSE LET shorter == NamesUpTo(n - 1)
         IN  shorter \cup {a \o t : a \in shorter, t \in Tokens}

RawNames == NamesUpTo(MaxTokens)

InitResolve ==
    /\ stem \in {n \o S_dna : n \in RawNames}
    /\ resolved = <<>>
    /\ IdlePipeline
    /\ IdleAsm

\* lines 61-133 for a file whose signature is [1]
ResolveFile ==
    /\ resolved = <<>>
    /\ resolved' = <<MakeRecord(model_id_of(stem), <<1>>)>>
    /\ UNCHANGED <<stem, pipelineVars, asmVars>>

NextResolve == ResolveFile

SpecResolve == InitResolve /\ [][NextResolve]_vars

-----------------------------------------------------------------------------
(* The assembly loop on its own: any records, any coordinate rows *)

SeqsUpTo(S, n) == UNION {[1..k -> S] : k \in 0..n}

AsmRecordSet ==
    {MakeRecord(model_id_of(F_qwen_x), <<1, 2>>),
     MakeRecord(model_id_of(F_Qwen_x), <<2, 1>>)}
AsmRowSet == {<<0, 0>>, <<1, 1>>}

InitAsm ==
    /\ asmRecords \in SeqsUpTo(AsmRecordSet, MaxRows)
    /\ asmEmbeddings \in SeqsUpTo(AsmRowSet, MaxRows + 1)
    /\ asmResult = [status |-> "pending", models |-> <<>>]
    /\ IdlePipeline
    /\ IdleResolve

\* lines 183-193 applied to the drawn records and rows
AssembleRows ==
    /\ asmResult.status = "pending"
    /\ asmResult' = AssembleLoop(asmRecords, asmEmbeddings)
    /\ UNCHANGED <<asmRecords, asmEmbeddings, pipelineVars, resolveVars>>

NextAsm == AssembleRows

SpecAsm == InitAsm /\ [][NextAsm]_vars

-----------------------------------------------------------------------------
(* Properties *)

\* the path of a candidate contains "embed" in some letter case
FromEmbedPath(p) == Contains(Lower(PathStr(p)), S_embed)

\* the raw names of the valid signature files scanned so far
RawNamesSeen == {seen[i].record.name : i \in DOMAIN seen}

\* the candidates scanned so far for raw name n
CandidatesOf(n) == {i \in DOMAIN seen : seen[i].record.name = n}

\* collect_signatures has returned
ScanDone ==
    pc \notin {"start", "scan"} /\ message # "Dataset directory not found"

\* C1: when two valid files with the same raw name were scanned, one from a
\* path containing "embed" (any letter case) and one from a path without it,
\* the entry kept for that name, and after the scan the record returned for
\* it, is that of a file from an "embed" path, whichever came first.
C1_EmbedWins ==
    \A n \in RawNamesSeen :
        LET fromEmbed == {i \in CandidatesOf(n) : FromEmbedPath(seen[i].src)}
        IN  (fromEmbed # {} /\ fromEmbed # CandidatesOf(n)) =>
               /\ n \in DOMAIN best_signature
               /\ \E m \in fromEmbed :
                     /\ seen[m].src = best_signature[n].src
                     /\ seen[m].record = best_signature[n].record
               /\ ScanDone =>
                     \E k \in DOMAIN records :
                        /\ records[k].name = n
                        /\ records[k] = best_signature[n].record

\* C1 witness: the scan has ended after a plain file, an "embed" file and
\* another plain file of one raw name, so both orders of arrival occurred
C1_Witness ==
    /\ pc = "collected"
    /\ \E i, j, k \in DOMAIN seen :
          /\ i < j /\ j < k
          /\ seen[i].record.name = seen[j].record.name
          /\ seen[j].record.name = seen[k].record.name
          /\ ~FromEmbedPath(seen[i].src)
          /\ FromEmbedPath(seen[j].src)
          /\ ~FromEmbedPath(seen[k].src)

\* the greatest quality signal among the candidates of n
MaxQuality(n) ==
    CHOOSE q \in {seen[i].score : i \in CandidatesOf(n)} :
        \A i \in CandidatesOf(n) : seen[i].score <= q

\* the earliest candidate of n that has the greatest quality signal
EarliestBest(n) ==
    CHOOSE i \in CandidatesOf(n) :
        /\ seen[i].score = MaxQuality(n)
        /\ \A j \in CandidatesOf(n) : seen[j].score = MaxQuality(n) => i <= j

\* C2: after any sequence of candidates, the entry stored for each key is the
\* earliest-seen candidate among those of the greatest quality signal seen so
\* far for that key (first always stored, replaced only by a strictly greater
\* signal, kept on an equal or lower one).
C2_EarliestOfMaxQuality ==
    \A n \in RawNamesSeen :
        /\ n \in DOMAIN best_signature
        /\ LET e == seen[EarliestBest(n)]
           IN  best_signature[n] =
                  [score |-> e.score, record |-> e.record, src |-> e.src]

\* C2 witness: one raw name was seen with signals 0, 1, 1 in that order and
\* the second of the three candidates is the stored one
C2_Witness ==
    \E i, j, k \in DOMAIN seen :
        /\ i < j /\ j < k
        /\ seen[i].record.name = seen[j].record.name
        /\ seen[j].record.name = seen[k].record.name
        /\ seen[i].score = 0 /\ seen[j].score = 1 /\ seen[k].score = 1
        /\ best_signature[seen[j].record.name].src = seen[j].src

\* the table has one entry per raw name seen, and the returned list one record
\* per raw name seen
C3_OnePerRawName ==
    /\ DOMAIN best_signature = RawNamesSeen
    /\ ScanDone =>
          /\ Len(records) = Cardinality(RawNamesSeen)
          /\ \A n \in RawNamesSeen :
                Cardinality({k \in DOMAIN records : records[k].name = n}) = 1

\* a step that admits a candidate leaves the entry of every other raw name
C3_Frame ==
    \A n \in DOMAIN best_signature :
        (/\ Len(seen') = Len(seen) + 1
         /\ seen'[Len(seen')].record.name # n)
        => /\ n \in DOMAIN best_signature'
           /\ best_signature'[n] = best_signature[n]

\* C3: the table is keyed on the raw file-derived name, not on the resolved
\* id: the retained records hold exactly one record per distinct raw name that
\* had a valid file (so two raw names with one id are both retained), and
\* admitting a candidate for one key never changes the entry of another key.
C3_KeyedOnRawName == [](C3_OnePerRawName) /\ [][C3_Frame]_vars

\* C3 witness: the returned list holds two records with one id and two names
C3_Witness ==
    /\ pc = "collected"
    /\ \E a, b \in DOMAIN records :
          /\ records[a].id = records[b].id
          /\ records[a].name # records[b].name

HasChar(s, c) == \E i \in 1..Len(s) : s[i] = c
FirstIndex(s, c) ==
    CHOOSE i \in 1..Len(s) : s[i] = c /\ \A j \in 1..(i - 1) : s[j] # c
Before(s, c) == SubSeq(s, 1, FirstIndex(s, c) - 1)
After(s, c) == SubSeq(s, FirstIndex(s, c) + 1, Len(s))

\* C4 as stated: for a raw name containing "_", the record's organization is
\* the substring before the first "_" and the display name the remainder.
C4_Original ==
    resolved # <<>> =>
        LET r == resolved[1] IN
        HasChar(r.name, "_") =>
            /\ r.organization = Before(r.name, "_")
            /\ r.id = r.organization \o <<"/">> \o After(r.name, "_")

\* C4 amended: for a raw name containing "_", the display name is the
\* remainder after the first "_", and the organization is the substring before
\* the first "_" (before the first "-", when that substring is exactly
\* "Unknown" or "Others" and the raw name has a "-") with hyphens replaced by
\* spaces, title-cased, and passed through the canonicalization overrides.
C4_UnderscoreSplit ==
    resolved # <<>> =>
        LET r == resolved[1] IN
        HasChar(r.name, "_") =>
            LET pre == Before(r.name, "_")
                base == IF pre \in {S_Unknown, S_Others} /\ HasChar(r.name, "-")
                        THEN Before(r.name, "-")
                        ELSE pre
            IN  /\ r.organization = SpecialFixes(CleanOrg(base))
                /\ r.id = r.organization \o <<"/">> \o After(r.name, "_")

\* C4 witness: a resolved raw name with a non-empty part on each side of its
\* first "_" whose organization differs from the part before it
C4_Witness ==
    /\ resolved # <<>>
    /\ HasChar(resolved[1].name, "_")
    /\ Before(resolved[1].name, "_") # <<>>
    /\ After(resolved[1].name, "_") # <<>>
    /\ resolved[1].organization # Before(resolved[1].name, "_")

\* C5: the organization of every resolved record is a non-empty string.
C5_OrganizationNonEmpty ==
    resolved # <<>> => Len(resolved[1].organization) > 0

\* C6: with fewer than 2 retained records the run ends in the "not enough
\* models" failure with exit status 1, t-SNE is never called and nothing is
\* written; and t-SNE is only ever called with at least 2 rows.
C6_TooFewIsFatal ==
    /\ (ScanDone /\ Cardinality(RawNamesSeen) < 2) =>
          /\ pc \in {"collected", "exited"}
          /\ tsneCalls = <<>>
          /\ output = <<>>
          /\ pc = "exited" =>
                exitCode = 1 /\ message = "Not enough models for t-SNE"
    /\ \A i \in DOMAIN tsneCalls : tsneCalls[i].n >= 2

\* C6 witness: the run has failed for want of models after two valid files
\* that share one raw name
C6_Witness ==
    /\ pc = "exited"
    /\ message = "Not enough models for t-SNE"
    /\ exitCode = 1
    /\ Len(seen) >= 2
    /\ Cardinality(RawNamesSeen) = 1

\* C7: a written document has metadata.count = len(models) and signatures of
\* one length; and retained records whose signatures differ in length are
\* fatal before t-SNE is called and never reach the output.
C7_UniformBeforeEmbedding ==
    /\ output # <<>> =>
          /\ output[1].metadata.count = Len(output[1].models)
          /\ Uniform(Signatures(output[1].models))
    /\ (ScanDone /\ ~Uniform(Signatures(records))) =>
          tsneCalls = <<>> /\ output = <<>>

PerFileFailure(c) ==
    \/ c.json = "invalid"
    \/ c.json = "array"
    \/ c.sigtype = "absent"
    \/ c.sigtype = "list" /\ Len(c.sig) = 0
    \/ c.sigtype \notin {"list", "absent"}

\* one iteration of the scan, on a file that fails or on a valid one
C9_FailureStep ==
    \A p \in Paths, c \in Contents :
        ScanFile(p, c) =>
            IF PerFileFailure(c)
            THEN /\ best_signature' = best_signature
                 /\ order' = order
                 /\ pc' = "scan"
                 /\ exitCode' = exitCode
            ELSE LET n == seen'[Len(seen')].record.name IN
                 /\ Len(seen') = Len(seen) + 1
                 /\ n \in DOMAIN best_signature'
                 /\ (n \notin DOMAIN best_signature
                        \/ (FromEmbedPath(p)
                              /\ ~FromEmbedPath(best_signature[n].src)))
                       => best_signature'[n].src = p

\* C9: scanning a file that fails (bad JSON, a signature that is missing,
\* empty or no array, an exception) leaves the table as it was, the scan going
\* and the run alive; a valid file, whatever failed before it, has an entry
\* for its raw name afterwards, its own when the name is new or when it comes
\* from an "embed" path and the stored one does not.
C9_PerFileFailureSkipped == [][C9_FailureStep]_vars

\* C9 witness: a file that failed was followed by a valid file that is now
\* the stored candidate of its raw name
C9_Witness ==
    \E i, j \in DOMAIN scanned :
        /\ i < j
        /\ \A m \in DOMAIN seen : seen[m].src # scanned[i]
        /\ \E n \in DOMAIN best_signature : best_signature[n].src = scanned[j]

\* the organization of raw name n after line 104
CleanedOrg(n) == CleanOrg(PlaceholderFallback(SplitOrgName(n).org, n))

\* C10 as stated: "llama" in any letter case gives "Meta Llama"; otherwise
\* equality with "01 Ai" gives "01-ai"; otherwise "Qwen" gives "Qwen";
\* otherwise the title-cased value.
C10_Original ==
    resolved # <<>> =>
        LET t == CleanedOrg(resolved[1].name) IN
        resolved[1].organization =
            IF Contains(Lower(t), S_llama) THEN S_Meta_Llama
            ELSE IF t = S_01_Ai THEN S_01_ai
            ELSE IF Contains(t, S_Qwen) THEN S_Qwen
            ELSE t

\* C10 amended: if the title-cased organization contains "Llama" with that
\* capitalization (a word that starts with "llama") the organization is
\* "Meta Llama"; otherwise if it contains "01 Ai" it is "01-ai"; otherwise if
\* it contains "Qwen" with that capitalization it is "Qwen"; otherwise it is
\* the title-cased value unchanged.
C10_Canonicalization ==
    resolved # <<>> =>
        LET t == CleanedOrg(resolved[1].name) IN
        resolved[1].organization =
            IF Contains(t, S_Llama) THEN S_Meta_Llama
            ELSE IF Contains(t, S_01_Ai) THEN S_01_ai
            ELSE IF Contains(t, S_Qwen) THEN S_Qwen
            ELSE t

\* C10 witness: a resolved name whose title-cased organization has "llama"
\* inside a word and is kept as it is
C10_Witness ==
    /\ resolved # <<>>
    /\ Contains(Lower(CleanedOrg(resolved[1].name)), S_llama)
    /\ ~Contains(CleanedOrg(resolved[1].name), S_Llama)
    /\ resolved[1].organization = CleanedOrg(resolved[1].name)

====
